---- MODULE Spec2Model ----
(***************************************************************************)
(* Model of neoSPI.py: the NeoPixel expanded buffer (12 bytes per pixel),  *)
(* the byte codec (_expand_byte / _compress_byte), item access by integer, *)
(* (pixel, channel) pair and step-1 slice, and rotate().                   *)
(*                                                                         *)
(* A memoryview slice is modelled as a view [off, len] onto the buffer,    *)
(* computed with Python's slice clamping; writes through a view change the *)
(* underlying buffer, one byte at a time, so that an exception raised in   *)
(* the middle of a handler leaves the bytes already written in place.      *)
(***************************************************************************)
EXTENDS Integers, Sequences, FiniteSets, TLC

VARIABLES n,       \* self._n
          data,    \* self._data, a sequence of n*12 bytes (index 1 = byte 0)
          pc,      \* caller position: "ready" to call, "done" = call finished
          op,      \* the call just made
          index,   \* its index argument
          value,   \* its value argument (setitem)
          count,   \* its count argument (rotate)
          ret,     \* what it returned
          pre,     \* self._data as it was when the call was made
          err,     \* the exception it raised, "none" when it returned
          b,       \* codec check: the byte handed to _expand_byte
          mv,      \* codec check: the 4-byte group
          v,       \* codec check: what _compress_byte returned
          cpc      \* codec check: position

vars == <<n, data, pc, op, index, value, count, ret, err, pre, b, mv, v, cpc>>

----------------------------------------------------------------------------
(* Bounds and input sets *)

MaxPixels == 3

\* channel values used by the calls: 27 = 0b00011011 uses all four table rows
Vals == {0, 27}

Bytes == 0 .. 255

\* Python's None for an omitted slice bound is <<>>, a given bound k is <<k>>
None == <<>>
Some(k) == <<k>>

Min(x, y) == IF x < y THEN x ELSE y

----------------------------------------------------------------------------
(* Byte codec *)

_expanded_bits == <<136, 140, 200, 204>>

\* data[a:b] on a buffer of length L: Python's clamping of slice bounds
ClampIndex(i, L) ==
    IF i < 0 THEN (IF i + L < 0 THEN 0 ELSE i + L)
    ELSE IF i > L THEN L ELSE i

\* the view data[a:b] of a view w (offsets are relative to w)
Slice(w, a, bb) ==
    LET lo == ClampIndex(a, w.len)
        hi == ClampIndex(bb, w.len)
    IN  [off |-> w.off + lo, len |-> IF hi > lo THEN hi - lo ELSE 0]

\* the whole buffer as a view
Whole(d) == [off |-> 0, len |-> Len(d)]

\* the bytes a view shows
ViewBytes(d, w) == [k \in 1 .. w.len |-> d[w.off + k]]

\* mv[0..3] = table entries, in order; the store mv[k] on a view shorter
\* than k+1 raises IndexError after the earlier stores have happened
_expand_byte(byte, d, w) ==
    LET bits == << _expanded_bits[((byte \div 64) % 4) + 1],
                   _expanded_bits[((byte \div 16) % 4) + 1],
                   _expanded_bits[((byte \div 4) % 4) + 1],
                   _expanded_bits[(byte % 4) + 1] >>
        done == Min(4, w.len)
    IN  [data |-> [k \in 1 .. Len(d) |->
                     IF k > w.off /\ k <= w.off + done
                     THEN bits[k - w.off] ELSE d[k]],
         err  |-> IF w.len < 4 THEN "IndexError" ELSE "none"]

\* bit 6 (T = 0x40) and bit 2 (B = 0x04) of a byte, as 0 or 1
BitT(x) == (x \div 64) % 2
BitB(x) == (x \div 4) % 2

\* _compress_byte with the shifts of the first byte's two bits exchanged
_compress_byte_swapped(d, w) ==
    IF w.len # 4
    THEN [val |-> 0, err |-> "ValueError"]
    ELSE LET b1 == d[w.off + 1]
             b2 == d[w.off + 2]
             b3 == d[w.off + 3]
             b4 == d[w.off + 4]
         IN  [val |-> BitT(b1) * 64 + BitB(b1) * 128 +
                      BitT(b2) * 32 + BitB(b2) * 16 +
                      BitT(b3) * 8  + BitB(b3) * 4 +
                      BitT(b4) * 2  + BitB(b4),
              err |-> "none"]

\* b1, b2, b3, b4 = mv raises ValueError unless the view has 4 bytes
_compress_byte(d, w) ==
    IF w.len # 4
    THEN [val |-> 0, err |-> "ValueError"]
    ELSE LET b1 == d[w.off + 1]
             b2 == d[w.off + 2]
             b3 == d[w.off + 3]
             b4 == d[w.off + 4]
         IN  [val |-> BitT(b1) * 128 + BitB(b1) * 64 +
                      BitT(b2) * 32  + BitB(b2) * 16 +
                      BitT(b3) * 8   + BitB(b3) * 4 +
                      BitT(b4) * 2   + BitB(b4),
              err |-> "none"]

----------------------------------------------------------------------------
(* Index arguments: an int, a (pixel, channel) tuple, a slice, or anything  *)
(* else; value arguments: a tuple, a list of tuples or an int               *)

IntIndex(i) ==
    [kind |-> "int", i |-> i, ch |-> 0, start |-> None, stop |-> None, step |-> None]
PairIndex(i, ch) ==
    [kind |-> "tuple", i |-> i, ch |-> ch, start |-> None, stop |-> None, step |-> None]
SliceIndex(start, stop, step) ==
    [kind |-> "slice", i |-> 0, ch |-> 0, start |-> start, stop |-> stop, step |-> step]
OtherIndex ==
    [kind |-> "other", i |-> 0, ch |-> 0, start |-> None, stop |-> None, step |-> None]
NoIndex ==
    [kind |-> "none", i |-> 0, ch |-> 0, start |-> None, stop |-> None, step |-> None]

TupleValue(t) == [kind |-> "tuple", items |-> t]
ListValue(l)  == [kind |-> "list", items |-> l]
IntValue(x)   == [kind |-> "int", items |-> <<x>>]
NoValue       == [kind |-> "none", items |-> <<>>]

Returned(d, r) == [data |-> d, ret |-> r, err |-> "none"]
Raised(d, e)   == [data |-> d, ret |-> <<>>, err |-> e]

----------------------------------------------------------------------------
(* NeoPixel *)

_unpack_slice(nn, s) ==
    IF s.step # None /\ s.step # Some(1)
    THEN [start |-> 0, stop |-> 0, err |-> "NotImplementedError"]
    ELSE [start |-> IF s.start = None THEN 0
                    ELSE IF s.start[1] < 0 THEN s.start[1] + nn ELSE s.start[1],
          stop  |-> IF s.stop = None THEN nn
                    ELSE IF s.stop[1] < 0 THEN s.stop[1] + nn ELSE s.stop[1],
          err   |-> "none"]

\* the three _compress_byte calls of one pixel at byte offset i of view w,
\* left to right; the first one to raise ends the call
CompressPixel(d, w, i) ==
    LET c0 == _compress_byte(d, Slice(w, i, i + 4))
        c1 == _compress_byte(d, Slice(w, i + 4, i + 8))
        c2 == _compress_byte(d, Slice(w, i + 8, i + 12))
    IN  IF c0.err # "none" THEN Raised(d, c0.err)
        ELSE IF c1.err # "none" THEN Raised(d, c1.err)
        ELSE IF c2.err # "none" THEN Raised(d, c2.err)
        ELSE Returned(d, <<c0.val, c1.val, c2.val>>)

getitem_int(d, nn, idx) ==
    IF idx < -nn \/ idx >= nn
    THEN Raised(d, "IndexError")
    ELSE CompressPixel(d, Whole(d), idx * 12)

getitem_tuple(d, nn, ind1, ind2) ==
    IF ind1 < -nn \/ ind1 >= nn \/ ind2 < 0 \/ ind2 >= 3
    THEN Raised(d, "IndexError")
    ELSE LET at == ind1 * 12 + ind2 * 4
             c  == _compress_byte(d, Slice(Whole(d), at, at + 4))
         IN  IF c.err # "none" THEN Raised(d, c.err) ELSE Returned(d, <<c.val>>)

getitem_slice(d, nn, s) ==
    LET u  == _unpack_slice(nn, s)
        dd == Slice(Whole(d), u.start * 12, u.stop * 12)
        px == [k \in 1 .. (dd.len + 11) \div 12 |-> CompressPixel(d, dd, (k - 1) * 12)]
    IN  IF u.err # "none" THEN Raised(d, u.err)
        ELSE IF \E k \in DOMAIN px : px[k].err # "none"
        THEN Raised(d, px[CHOOSE k \in DOMAIN px :
                           px[k].err # "none" /\ \A j \in 1 .. k - 1 : px[j].err = "none"].err)
        ELSE Returned(d, [k \in DOMAIN px |-> px[k].ret])

__getitem__(d, nn, ix) ==
    IF ix.kind = "int" THEN getitem_int(d, nn, ix.i)
    ELSE IF ix.kind = "tuple" THEN getitem_tuple(d, nn, ix.i, ix.ch)
    ELSE IF ix.kind = "slice" THEN getitem_slice(d, nn, ix)
    ELSE Raised(d, "IndexError")

\* the three _expand_byte calls of one pixel at byte offset i of view w,
\* left to right; a raising call ends the handler with the earlier stores kept
ExpandPixel(t, d, w, i) ==
    LET e0 == _expand_byte(t[1], d, Slice(w, i, i + 4))
        e1 == _expand_byte(t[2], e0.data, Slice(w, i + 4, i + 8))
        e2 == _expand_byte(t[3], e1.data, Slice(w, i + 8, i + 12))
    IN  IF e0.err # "none" THEN Raised(e0.data, e0.err)
        ELSE IF e1.err # "none" THEN Raised(e1.data, e1.err)
        ELSE IF e2.err # "none" THEN Raised(e2.data, e2.err)
        ELSE Returned(e2.data, <<>>)

\* setitem_int without index *= 12
setitem_int_unscaled(d, nn, idx, val) ==
    IF idx < -nn \/ idx >= nn
    THEN Raised(d, "IndexError")
    ELSE IF val.kind # "tuple" \/ Len(val.items) # 3
    THEN Raised(d, "ValueError")
    ELSE ExpandPixel(val.items, d, Whole(d), idx)

setitem_int(d, nn, idx, val) ==
    IF idx < -nn \/ idx >= nn
    THEN Raised(d, "IndexError")
    ELSE IF val.kind # "tuple" \/ Len(val.items) # 3
    THEN Raised(d, "ValueError")
    ELSE ExpandPixel(val.items, d, Whole(d), idx * 12)

\* setitem_tuple with ind1 += ind2 in place of ind1 += ind2 * 4
setitem_tuple_bytestep(d, nn, ind1, ind2, val) ==
    IF ind1 < -nn \/ ind1 >= nn \/ ind2 < 0 \/ ind2 >= 3
    THEN Raised(d, "IndexError")
    ELSE IF val.kind # "int" \/ val.items[1] < 0 \/ val.items[1] > 255
    THEN Raised(d, "ValueError")
    ELSE LET at == ind1 * 12 + ind2
             e  == _expand_byte(val.items[1], d, Slice(Whole(d), at, at + 4))
         IN  IF e.err # "none" THEN Raised(e.data, e.err) ELSE Returned(e.data, <<>>)

setitem_tuple(d, nn, ind1, ind2, val) ==
    IF ind1 < -nn \/ ind1 >= nn \/ ind2 < 0 \/ ind2 >= 3
    THEN Raised(d, "IndexError")
    ELSE IF val.kind # "int" \/ val.items[1] < 0 \/ val.items[1] > 255
    THEN Raised(d, "ValueError")
    ELSE LET at == ind1 * 12 + ind2 * 4
             e  == _expand_byte(val.items[1], d, Slice(Whole(d), at, at + 4))
         IN  IF e.err # "none" THEN Raised(e.data, e.err) ELSE Returned(e.data, <<>>)

\* dst[...] = src on memoryviews: the lengths must agree, else ValueError
StoreSlice(d, w, src) ==
    IF w.len # Len(src)
    THEN [data |-> d, err |-> "ValueError"]
    ELSE [data |-> [k \in 1 .. Len(d) |->
                      IF k > w.off /\ k <= w.off + w.len THEN src[k - w.off] ELSE d[k]],
          err  |-> "none"]

\* for i in range(12, len(dd), 12): dd[i:i+12] = dd[0:12]
RECURSIVE TileLoop(_, _, _)
TileLoop(d, dd, i) ==
    IF i >= dd.len THEN Returned(d, <<>>)
    ELSE LET st == StoreSlice(d, Slice(dd, i, i + 12), ViewBytes(d, Slice(dd, 0, 12)))
         IN  IF st.err # "none" THEN Raised(st.data, st.err)
             ELSE TileLoop(st.data, dd, i + 12)

\* for i in range(0, len(dd), 12): v0, v1, v2 = value[i//3]; expand into dd[i:i+12]
RECURSIVE ListLoop(_, _, _, _)
ListLoop(d, dd, items, i) ==
    IF i >= dd.len THEN Returned(d, <<>>)
    ELSE IF i \div 3 >= Len(items) THEN Raised(d, "IndexError")
    ELSE LET e == ExpandPixel(items[(i \div 3) + 1], d, dd, i)
         IN  IF e.err # "none" THEN e
             ELSE ListLoop(e.data, dd, items, i + 12)

\* setitem_slice whose tile loop is range(12, len(dd) - 12, 12)
setitem_slice_short_tile(d, nn, s, val) ==
    LET u  == _unpack_slice(nn, s)
        dd == Slice(Whole(d), u.start * 12, u.stop * 12)
    IN  IF u.err # "none" THEN Raised(d, u.err)
        ELSE IF dd.len = 0 THEN Returned(d, <<>>)
        ELSE IF val.kind = "tuple" /\ Len(val.items) = 3
        THEN LET e == ExpandPixel(val.items, d, dd, 0)
             IN  IF e.err # "none" THEN e
                 ELSE TileLoop(e.data, [off |-> dd.off, len |-> dd.len - 12], 12)
        ELSE IF val.kind = "list" /\ \A k \in DOMAIN val.items : Len(val.items[k]) = 3
        THEN ListLoop(d, dd, val.items, 0)
        ELSE Raised(d, "ValueError")

setitem_slice(d, nn, s, val) ==
    LET u  == _unpack_slice(nn, s)
        dd == Slice(Whole(d), u.start * 12, u.stop * 12)
    IN  IF u.err # "none" THEN Raised(d, u.err)
        ELSE IF dd.len = 0 THEN Returned(d, <<>>)
        ELSE IF val.kind = "tuple" /\ Len(val.items) = 3
        THEN LET e == ExpandPixel(val.items, d, dd, 0)
             IN  IF e.err # "none" THEN e ELSE TileLoop(e.data, dd, 12)
        ELSE IF val.kind = "list" /\ \A k \in DOMAIN val.items : Len(val.items[k]) = 3
        THEN ListLoop(d, dd, val.items, 0)
        ELSE Raised(d, "ValueError")

__setitem__(d, nn, ix, val) ==
    IF ix.kind = "int" THEN setitem_int(d, nn, ix.i, val)
    ELSE IF ix.kind = "tuple" THEN setitem_tuple(d, nn, ix.i, ix.ch, val)
    ELSE IF ix.kind = "slice" THEN setitem_slice(d, nn, ix, val)
    ELSE Raised(d, "IndexError")

\* rotate turning the other way: count = -count % n
rotate_backwards(d, nn, cnt) ==
    LET c    == ((-cnt) % nn) * 12
        tail == ViewBytes(d, Slice(Whole(d), -c, Len(d)))
        head == ViewBytes(d, Slice(Whole(d), 0, -c))
        s1   == StoreSlice(d, Slice(Whole(d), c, Len(d)), head)
        s2   == StoreSlice(s1.data, Slice(Whole(d), 0, c), tail)
    IN  IF s1.err # "none" THEN Raised(s1.data, s1.err)
        ELSE IF s2.err # "none" THEN Raised(s2.data, s2.err)
        ELSE Returned(s2.data, <<>>)

\* count = count % n, in bytes; tail and head are copies; the two stores
\* go through the memoryview, so each needs equal lengths
rotate(d, nn, cnt) ==
    LET c    == (cnt % nn) * 12
        tail == ViewBytes(d, Slice(Whole(d), -c, Len(d)))
        head == ViewBytes(d, Slice(Whole(d), 0, -c))
        s1   == StoreSlice(d, Slice(Whole(d), c, Len(d)), head)
        s2   == StoreSlice(s1.data, Slice(Whole(d), 0, c), tail)
    IN  IF s1.err # "none" THEN Raised(s1.data, s1.err)
        ELSE IF s2.err # "none" THEN Raised(s2.data, s2.err)
        ELSE Returned(s2.data, <<>>)

\* __init__: a zeroed bytearray of pixel_count * 12 bytes, then self[:] = (0,0,0)
__init__(pixel_count) ==
    setitem_slice([k \in 1 .. pixel_count * 12 |-> 0], pixel_count,
                  SliceIndex(None, None, None), TupleValue(<<0, 0, 0>>)).data

----------------------------------------------------------------------------
(* Inputs of the calls *)

MaxList == 5

PixelIndices(nn) == -(nn + 1) .. nn
Channels == -1 .. 3
Triples == {<<0, 0, 0>>, <<27, 0, 0>>, <<0, 27, 0>>, <<0, 0, 27>>}
ChannelValues == Vals \cup {256}
Counts(nn) == -(nn + 1) .. (2 * nn + 1)

WholeSlice == SliceIndex(None, None, None)

\* int and (pixel, channel) indices, in and out of range, the slice [:] and
\* an index that is none of the three
PointIndices(nn) ==
    {IntIndex(i) : i \in PixelIndices(nn)}
    \cup {PairIndex(i, ch) : i \in PixelIndices(nn), ch \in Channels}
    \cup {WholeSlice, OtherIndex}

\* slices [a:z] with each bound omitted or between -(n+1) and n+1, and two
\* with a step
SliceBounds(nn) == {None} \cup {Some(k) : k \in -(nn + 1) .. (nn + 1)}
Slices(nn) ==
    {SliceIndex(a, z, None) : a \in SliceBounds(nn), z \in SliceBounds(nn)}
    \cup {SliceIndex(None, None, Some(1)), SliceIndex(None, None, Some(2))}

\* lists of 0 .. MaxList triples, neighbours different
Palette == << <<27, 0, 0>>, <<0, 27, 0>>, <<0, 0, 27>> >>
Lists == {[k \in 1 .. m |-> Palette[((k - 1) % Len(Palette)) + 1]] : m \in 0 .. MaxList}

\* the values tried with each form of index: what the form takes, and one
\* it does not
IntFormValues   == {TupleValue(t) : t \in Triples} \cup {TupleValue(<<27, 0>>)}
TupleFormValues == {IntValue(x) : x \in ChannelValues}
SliceFormValues ==
    {TupleValue(t) : t \in Triples} \cup {ListValue(l) : l \in Lists} \cup {IntValue(27)}
ValuesFor(ix) ==
    IF ix.kind = "int" THEN IntFormValues
    ELSE IF ix.kind = "tuple" THEN TupleFormValues
    ELSE IF ix.kind = "slice" THEN SliceFormValues
    ELSE {TupleValue(<<0, 0, 0>>)}

----------------------------------------------------------------------------
(* The buffer under a caller making one call at a time *)

CodecIdle == b = 0 /\ mv = <<0, 0, 0, 0>> /\ v = 0 /\ cpc = "off"

Init ==
    /\ n \in 1 .. MaxPixels
    /\ data = __init__(n)
    /\ pre = data
    /\ pc = "done"
    /\ op = "__init__"
    /\ index = NoIndex
    /\ value = NoValue
    /\ count = 0
    /\ ret = <<>>
    /\ err = "none"
    /\ CodecIdle

Call__getitem__(ix) ==
    LET r == __getitem__(data, n, ix)
    IN  /\ pc' = "done"
        /\ op' = "__getitem__"
        /\ index' = ix
        /\ value' = NoValue
        /\ count' = 0
        /\ pre' = data
        /\ data' = r.data
        /\ ret' = r.ret
        /\ err' = r.err
        /\ UNCHANGED <<n, b, mv, v, cpc>>

Call__setitem__(ix, val) ==
    LET r == __setitem__(data, n, ix, val)
    IN  /\ pc' = "done"
        /\ op' = "__setitem__"
        /\ index' = ix
        /\ value' = val
        /\ count' = 0
        /\ pre' = data
        /\ data' = r.data
        /\ ret' = r.ret
        /\ err' = r.err
        /\ UNCHANGED <<n, b, mv, v, cpc>>

GetItem ==
    /\ pc = "ready"
    /\ \E ix \in PointIndices(n) : Call__getitem__(ix)

SetItem ==
    /\ pc = "ready"
    /\ \E ix \in PointIndices(n) : \E val \in ValuesFor(ix) : Call__setitem__(ix, val)

Rotate ==
    /\ pc = "ready"
    /\ \E c \in Counts(n) :
        LET r == rotate(data, n, c)
        IN  /\ pc' = "done"
            /\ op' = "rotate"
            /\ index' = NoIndex
            /\ value' = NoValue
            /\ count' = c
            /\ pre' = data
            /\ data' = r.data
            /\ ret' = r.ret
            /\ err' = r.err
            /\ UNCHANGED <<n, b, mv, v, cpc>>

\* the call is over (returned or raised) and the caller goes on to its next call
Return ==
    /\ pc = "done"
    /\ pc' = "ready"
    /\ op' = "idle"
    /\ index' = NoIndex
    /\ value' = NoValue
    /\ count' = 0
    /\ ret' = <<>>
    /\ err' = "none"
    /\ pre' = data
    /\ UNCHANGED <<n, data, b, mv, v, cpc>>

Next == GetItem \/ SetItem \/ Rotate \/ Return

Spec == Init /\ [][Next]_vars

----------------------------------------------------------------------------
(* The same buffer under a caller that reads and writes slices *)

GetSlice ==
    /\ pc = "ready"
    /\ \E ix \in Slices(n) : Call__getitem__(ix)

SetSlice ==
    /\ pc = "ready"
    /\ \E ix \in Slices(n) : \E val \in ValuesFor(ix) : Call__setitem__(ix, val)

SliceNext == GetSlice \/ SetSlice \/ Return

SliceSpec == Init /\ [][SliceNext]_vars

----------------------------------------------------------------------------
(* The codec on its own: every byte value through _expand_byte and back *)

CodecInit ==
    /\ n = 1
    /\ data = __init__(1)
    /\ pre = data
    /\ pc = "ready"
    /\ op = "idle"
    /\ index = NoIndex
    /\ value = NoValue
    /\ count = 0
    /\ ret = <<>>
    /\ err = "none"
    /\ b \in Bytes
    /\ mv = <<0, 0, 0, 0>>
    /\ v = 0
    /\ cpc = "start"

ExpandByte ==
    /\ cpc = "start"
    /\ mv' = _expand_byte(b, mv, Whole(mv)).data
    /\ cpc' = "expanded"
    /\ UNCHANGED <<n, data, pc, op, index, value, count, ret, err, pre, b, v>>

CompressByte ==
    /\ cpc = "expanded"
    /\ v' = _compress_byte(mv, Whole(mv)).val
    /\ cpc' = "compressed"
    /\ UNCHANGED <<n, data, pc, op, index, value, count, ret, err, pre, b, mv>>

CodecNext == ExpandByte \/ CompressByte

CodecSpec == CodecInit /\ [][CodecNext]_vars

----------------------------------------------------------------------------
(* What the claims speak of *)

IsByteTriple(val) ==
    /\ val.kind = "tuple"
    /\ Len(val.items) = 3
    /\ \A k \in 1 .. 3 : val.items[k] \in Bytes

\* the 12 buffer bytes of pixel p
PixelBytes(d, p) == [k \in 1 .. 12 |-> d[p * 12 + k]]

\* the 4 bytes the table gives for a byte value, most significant pair first
TableBytes(x) ==
    LET T == [g \in 0 .. 3 |-> CASE g = 0 -> 136 [] g = 1 -> 140 [] g = 2 -> 200 [] g = 3 -> 204]
    IN  <<T[(x \div 64) % 4], T[(x \div 16) % 4], T[(x \div 4) % 4], T[x % 4]>>

\* the 12 bytes of a pixel holding the triple t
TripleBytes(t) == TableBytes(t[1]) \o TableBytes(t[2]) \o TableBytes(t[3])

\* the pixels a slice addresses in a buffer of nn pixels
SlicePixels(nn, s) ==
    LET u  == _unpack_slice(nn, s)
        dd == Slice([off |-> 0, len |-> nn * 12], u.start * 12, u.stop * 12)
    IN  {p \in 0 .. nn - 1 : dd.off <= p * 12 /\ p * 12 < dd.off + dd.len}

StepOne(s) == s.step = None \/ s.step = Some(1)

\* both bounds of the slice, once negative ones are offset by nn, lie in 0 .. nn
BoundsInRange(nn, s) ==
    /\ s.start # None => s.start[1] \in -nn .. nn
    /\ s.stop # None => s.stop[1] \in -nn .. nn

Called(o, k) == pc = "done" /\ op = o /\ index.kind = k

(* C1: for every byte value, _compress_byte of the 4 bytes written by       *)
(* _expand_byte is that value, and the 4 bytes are the table entries of its *)
(* four 2-bit groups, most significant first                                *)
C1_CompressExpand ==
    /\ cpc \in {"expanded", "compressed"} => mv = TableBytes(b)
    /\ cpc = "compressed" => v = b

C1_Witness == cpc = "compressed" /\ b = 27 /\ mv = <<136, 140, 200, 204>> /\ v = 27

(* C2: after set(i, (a,b,c)) with 0 <= i < pixel_count the call has         *)
(* returned, the buffer is the previous one with only pixel i changed,      *)
(* get(i) is (a,b,c) and get(k) is what it was for every other pixel k      *)
C2_SetGetPixel ==
    (Called("__setitem__", "int") /\ index.i \in 0 .. n - 1 /\ IsByteTriple(value)) =>
        /\ err = "none"
        /\ Len(data) = Len(pre)
        /\ \A k \in 1 .. Len(pre) :
             (k <= index.i * 12 \/ k > index.i * 12 + 12) => data[k] = pre[k]
        /\ PixelBytes(data, index.i) = TripleBytes(value.items)
        /\ __getitem__(data, n, IntIndex(index.i)) = Returned(data, value.items)
        /\ \A k \in (0 .. n - 1) \ {index.i} :
             /\ __getitem__(data, n, IntIndex(k)).err = "none"
             /\ __getitem__(data, n, IntIndex(k)).ret = __getitem__(pre, n, IntIndex(k)).ret

C2_Witness ==
    /\ Called("__setitem__", "int") /\ err = "none" /\ n = 3
    /\ index.i = 1 /\ value.items = <<27, 0, 0>>
    /\ __getitem__(pre, n, IntIndex(1)).ret = <<0, 27, 27>>
    /\ __getitem__(data, n, IntIndex(0)).ret = <<0, 0, 27>>

(* C3: after set(i, ch, v) with 0 <= i < pixel_count, ch in 0..2 and v in   *)
(* 0..255, get(i, ch) is v and the other two channels of pixel i read what  *)
(* they read before the call                                                *)
C3_SetGetChannel ==
    (/\ Called("__setitem__", "tuple")
     /\ index.i \in 0 .. n - 1 /\ index.ch \in 0 .. 2
     /\ value.kind = "int" /\ value.items[1] \in Bytes) =>
        /\ err = "none"
        /\ __getitem__(data, n, PairIndex(index.i, index.ch)) = Returned(data, value.items)
        /\ \A c \in (0 .. 2) \ {index.ch} :
             /\ __getitem__(data, n, PairIndex(index.i, c)).err = "none"
             /\ __getitem__(data, n, PairIndex(index.i, c)).ret
                  = __getitem__(pre, n, PairIndex(index.i, c)).ret

C3_Witness ==
    /\ Called("__setitem__", "tuple") /\ err = "none"
    /\ index.i = 1 /\ index.ch = 1 /\ value.items = <<27>>
    /\ __getitem__(pre, n, IntIndex(1)).ret = <<27, 0, 27>>
    /\ __getitem__(data, n, IntIndex(1)).ret = <<27, 27, 27>>

(* C4: after set(range, (a,b,c)) on a step-1 range the call has returned,   *)
(* get(range) has one element per pixel of the range, each (a,b,c); every   *)
(* slot of the range holds the bytes of expanding the triple there and the  *)
(* rest of the buffer is as before; an empty range leaves the buffer alone  *)
C4_SliceBroadcast ==
    (Called("__setitem__", "slice") /\ StepOne(index) /\ IsByteTriple(value)) =>
        LET P == SlicePixels(n, index)
            g == __getitem__(data, n, index)
        IN  /\ err = "none"
            /\ g.err = "none"
            /\ Len(g.ret) = Cardinality(P)
            /\ \A k \in 1 .. Len(g.ret) : g.ret[k] = value.items
            /\ Len(data) = Len(pre)
            /\ \A p \in 0 .. n - 1 :
                 PixelBytes(data, p) =
                     IF p \in P THEN TripleBytes(value.items) ELSE PixelBytes(pre, p)
            /\ P = {} => data = pre
            /\ BoundsInRange(n, index) =>
                 LET u == _unpack_slice(n, index)
                 IN  P = {p \in 0 .. n - 1 : u.start <= p /\ p < u.stop}

C4_Witness ==
    /\ Called("__setitem__", "slice") /\ err = "none" /\ n = 3
    /\ index.start = Some(-2) /\ index.stop = None
    /\ value.items = <<0, 27, 0>>
    /\ __getitem__(pre, n, WholeSlice).ret = << <<27, 0, 0>>, <<27, 0, 0>>, <<0, 0, 27>> >>
    /\ __getitem__(data, n, WholeSlice).ret = << <<27, 0, 0>>, <<0, 27, 0>>, <<0, 27, 0>> >>

(* C4 also: an empty range with a triple is reached and changes nothing *)
C4_EmptyWitness ==
    /\ Called("__setitem__", "slice") /\ err = "none"
    /\ SlicePixels(n, index) = {} /\ IsByteTriple(value) /\ StepOne(index)
    /\ __getitem__(data, n, IntIndex(0)).ret = <<27, 0, 0>>

(* C5: after set(range, L) on a step-1 range of m >= 1 pixels with L a list *)
(* of m triples, the call has returned and get(range) is L                  *)
C5_SliceList ==
    (/\ Called("__setitem__", "slice") /\ StepOne(index)
     /\ value.kind = "list"
     /\ Cardinality(SlicePixels(n, index)) >= 1
     /\ Len(value.items) = Cardinality(SlicePixels(n, index))) =>
        /\ err = "none"
        /\ __getitem__(data, n, index) = Returned(data, value.items)

(* C6: set(range, L) with a list whose length is not the number of pixels   *)
(* of the range raises an error. Stated for ranges of at least one pixel,   *)
(* and any exception counts as the length-mismatch error                    *)
C6_ListLengthMismatch ==
    (/\ Called("__setitem__", "slice") /\ StepOne(index)
     /\ value.kind = "list"
     /\ Cardinality(SlicePixels(n, index)) >= 1
     /\ Len(value.items) # Cardinality(SlicePixels(n, index))) =>
        err # "none"

(* C7: for 1 <= j <= pixel_count a call with index -j gives what the same   *)
(* call with index pixel_count - j gives: the same result or error for get, *)
(* the same buffer and error for set, in the pixel and the (pixel, channel) *)
(* form                                                                     *)
C7_NegativeIndex ==
    (/\ pc = "done" /\ op \in {"__getitem__", "__setitem__"}
     /\ index.kind \in {"int", "tuple"}
     /\ index.i \in -n .. -1) =>
        LET same == [index EXCEPT !.i = index.i + n]
        IN  /\ op = "__getitem__" =>
                 LET r == __getitem__(pre, n, same)
                 IN  err = r.err /\ ret = r.ret /\ data = r.data
            /\ op = "__setitem__" =>
                 LET r == __setitem__(pre, n, same, value)
                 IN  err = r.err /\ data = r.data

(* C8: rotate(count) with count a multiple of pixel_count returns without   *)
(* error and leaves every byte of the buffer as it was                      *)
C8_RotateIdentity ==
    (pc = "done" /\ op = "rotate" /\ count % n = 0) =>
        err = "none" /\ data = pre

(* C9: after rotate(count) with count not a multiple of pixel_count the     *)
(* call has returned, the buffer still has pixel_count * 12 bytes and the   *)
(* pixel that was at i is at (i + count) mod pixel_count, for every i       *)
C9_RotateMoves ==
    (pc = "done" /\ op = "rotate" /\ count % n # 0) =>
        /\ err = "none"
        /\ Len(data) = n * 12
        /\ \A i \in 0 .. n - 1 :
             PixelBytes(data, (i + count) % n) = PixelBytes(pre, i)

C9_Witness ==
    /\ pc = "done" /\ op = "rotate" /\ err = "none" /\ n = 3 /\ count = -4
    /\ __getitem__(pre, n, WholeSlice).ret = << <<27, 0, 0>>, <<0, 27, 0>>, <<0, 0, 27>> >>
    /\ __getitem__(data, n, WholeSlice).ret = << <<0, 27, 0>>, <<0, 0, 27>>, <<27, 0, 0>> >>

(* C10: a get, set or rotate call that raises leaves the buffer byte for    *)
(* byte as it was before the call                                           *)
C10_FailureAtomic ==
    (pc = "done" /\ err # "none") => data = pre

====
